---- MODULE Spec2Model ----
(***************************************************************************)
(* Model of the integration routines of 1_basic/Cython_Overview.ipynb:     *)
(* integrate_python, integrate_numpy, integrate_cython_types,              *)
(* integrate_cython_libc, integrate_cython_cfun and the standalone         *)
(* integrate (integrate.pyx), each a left Riemann sum of sin(x)*cos(x).    *)
(*                                                                         *)
(* A C double / Python float is modelled as a binary floating-point number *)
(* with Prec significant bits (53 in the program: TLC's integers are 32    *)
(* bits wide), rounded to nearest, ties to even, with signed zeros,        *)
(* infinities and nan.  The exponent is not bounded: the inputs of the     *)
(* model stay far from the overflow and underflow thresholds.              *)
(***************************************************************************)
EXTENDS Integers, Sequences, FiniteSets, TLC

\* ------------------------------------------------------------------ bounds
\* Significant bits of a modelled double.
Prec == 8
\* Largest sample count N the driver passes.
MaxN == 8
\* The driver passes the malformed sample counts -MaxNeg .. 0 as well.
MaxNeg == 2
\* Fractional bits of the fixed-point evaluation of sin and cos.
FracBits == 14
\* Calls the driver makes of each implementation (the check call plus timed ones).
Trials == 2

\* ------------------------------------------------- floating-point values
\* [k, sg, m, e]: k = "fin" is sg * m * 2^e with 2^(Prec-1) <= m < 2^Prec;
\* "zero" and "inf" carry a sign; "nan" has none.
Fl(k, sg, m, e) == [k |-> k, sg |-> sg, m |-> m, e |-> e]
NaN == Fl("nan", 1, 0, 0)
Inf(sg) == Fl("inf", sg, 0, 0)
Zero(sg) == Fl("zero", sg, 0, 0)
PZero == Zero(1)

RECURSIVE BitLen(_)
\* Number of bits of the natural number n.
BitLen(n) == IF n = 0 THEN 0 ELSE 1 + BitLen(n \div 2)

\* The double nearest to sg * M * 2^E (M > 0), ties to even; sticky says that
\* the exact value lies strictly above M * 2^E in magnitude.
Round(sg, M, E, sticky) ==
  LET L == BitLen(M) IN
  IF L <= Prec THEN Fl("fin", sg, M * 2^(Prec - L), E - (Prec - L))
  ELSE LET d == L - Prec
           q == M \div 2^d
           r == M % 2^d
           half == 2^(d - 1)
           up == \/ r > half
                 \/ r = half /\ sticky
                 \/ r = half /\ ~sticky /\ q % 2 = 1
           q1 == IF up THEN q + 1 ELSE q
       IN IF q1 = 2^Prec THEN Fl("fin", sg, 2^(Prec - 1), E + d + 1)
          ELSE Fl("fin", sg, q1, E + d)

\* Conversion of a C int / Python int to double.
FromInt(n) ==
  IF n = 0 THEN PZero
  ELSE Round(IF n < 0 THEN -1 ELSE 1, IF n < 0 THEN -n ELSE n, 0, FALSE)

Neg(x) == IF x.k = "nan" THEN x ELSE [x EXCEPT !.sg = -x.sg]

\* IEEE-754 addition.
Add(x, y) ==
  IF x.k = "nan" \/ y.k = "nan" THEN NaN
  ELSE IF x.k = "inf" THEN (IF y.k = "inf" /\ y.sg # x.sg THEN NaN ELSE x)
  ELSE IF y.k = "inf" THEN y
  ELSE IF x.k = "zero" /\ y.k = "zero"
       THEN (IF x.sg = -1 /\ y.sg = -1 THEN Zero(-1) ELSE PZero)
  ELSE IF x.k = "zero" THEN y
  ELSE IF y.k = "zero" THEN x
  ELSE IF x.e - y.e > Prec + 2 THEN x
  ELSE IF y.e - x.e > Prec + 2 THEN y
  ELSE LET e == IF x.e < y.e THEN x.e ELSE y.e
           M == x.sg * x.m * 2^(x.e - e) + y.sg * y.m * 2^(y.e - e)
       IN IF M = 0 THEN PZero
          ELSE Round(IF M < 0 THEN -1 ELSE 1, IF M < 0 THEN -M ELSE M, e, FALSE)

Sub(x, y) == Add(x, Neg(y))

\* IEEE-754 multiplication.
Mul(x, y) ==
  IF x.k = "nan" \/ y.k = "nan" THEN NaN
  ELSE IF x.k = "inf" \/ y.k = "inf"
       THEN (IF x.k = "zero" \/ y.k = "zero" THEN NaN ELSE Inf(x.sg * y.sg))
  ELSE IF x.k = "zero" \/ y.k = "zero" THEN Zero(x.sg * y.sg)
  ELSE Round(x.sg * y.sg, x.m * y.m, x.e + y.e, FALSE)

\* IEEE-754 division, which is what C's / on doubles is on every platform
\* Cython builds for: a zero divisor gives an infinity or nan, never a trap.
Div(x, y) ==
  IF x.k = "nan" \/ y.k = "nan" THEN NaN
  ELSE IF x.k = "inf" THEN (IF y.k = "inf" THEN NaN ELSE Inf(x.sg * y.sg))
  ELSE IF y.k = "inf" THEN Zero(x.sg * y.sg)
  ELSE IF y.k = "zero" THEN (IF x.k = "zero" THEN NaN ELSE Inf(x.sg * y.sg))
  ELSE IF x.k = "zero" THEN Zero(x.sg * y.sg)
  ELSE LET num == x.m * 2^(Prec + 2)
       IN Round(x.sg * y.sg, num \div y.m, x.e - y.e - (Prec + 2), num % y.m # 0)

\* The comparisons == and < of doubles: the two zeros are equal, nan is
\* unordered and unequal to everything.
Eq(x, y) ==
  /\ x.k # "nan" /\ y.k # "nan"
  /\ \/ x.k = "zero" /\ y.k = "zero"
     \/ x = y
Less(x, y) ==
  /\ x.k # "nan" /\ y.k # "nan"
  /\ ~Eq(x, y)
  /\ LET d == Sub(x, y) IN d.k # "nan" /\ d.sg = -1
Abs(x) == IF x.k = "nan" THEN x ELSE [x EXCEPT !.sg = 1]
IsZero(x) == x.k = "zero"
IsFinite(x) == x.k \in {"fin", "zero"}

\* ------------------------------------------------------- libc sin and cos
\* sin and cos are the C library's (math.sin, np.sin and libc.math.sin all
\* come down to them).  They are evaluated in fixed point with FixOne units
\* per 1.0 (finer than a modelled double), by reduction modulo pi/2 and the
\* Taylor polynomials, and the result is rounded to a double.
FixOne == 2^FracBits
\* pi in fixed point: pi * 2^28 is 843314857, rounded to FracBits bits.
PiFix == (843314857 + 2^(27 - FracBits)) \div 2^(28 - FracBits)
HalfPiFix == PiFix \div 2

\* Product of two fixed-point numbers, rounded.
FixMul(u, v) == (u * v + FixOne \div 2) \div FixOne

\* The fixed-point number nearest to the finite double x.
ToFix(x) ==
  IF x.k = "zero" THEN 0
  ELSE LET sh == x.e + FracBits IN
       IF sh >= 0 THEN x.sg * x.m * 2^sh
       ELSE IF -sh > Prec + 1 THEN 0
       ELSE x.sg * ((x.m + 2^(-sh - 1)) \div 2^(-sh))

\* The double nearest to the fixed-point number v.
FromFix(v) ==
  IF v = 0 THEN PZero
  ELSE Round(IF v < 0 THEN -1 ELSE 1, IF v < 0 THEN -v ELSE v, -FracBits, FALSE)

\* sin and cos of a reduced argument |r| <= pi/4, in fixed point.
SinPoly(r) ==
  LET r2 == FixMul(r, r)
      t3 == FixOne - r2 \div 42
      t2 == FixOne - FixMul(r2, t3) \div 20
      t1 == FixOne - FixMul(r2, t2) \div 6
  IN FixMul(r, t1)
CosPoly(r) ==
  LET r2 == FixMul(r, r)
      t4 == FixOne - r2 \div 56
      t3 == FixOne - FixMul(r2, t4) \div 30
      t2 == FixOne - FixMul(r2, t3) \div 12
  IN FixOne - FixMul(r2, t2) \div 2

\* Quadrant and reduced argument of the fixed-point angle v.
Quadrant(v) == (v + HalfPiFix \div 2) \div HalfPiFix
Reduced(v) == v - Quadrant(v) * HalfPiFix

sin(x) ==
  IF x.k \in {"nan", "inf"} THEN NaN
  ELSE IF x.k = "zero" \/ ToFix(x) = 0 THEN x
  ELSE LET v == ToFix(x)
           q == Quadrant(v) % 4
           r == Reduced(v)
       IN FromFix(CASE q = 0 -> SinPoly(r)
                    [] q = 1 -> CosPoly(r)
                    [] q = 2 -> -SinPoly(r)
                    [] q = 3 -> -CosPoly(r))
cos(x) ==
  IF x.k \in {"nan", "inf"} THEN NaN
  ELSE LET v == ToFix(x)
           q == Quadrant(v) % 4
           r == Reduced(v)
       IN FromFix(CASE q = 0 -> CosPoly(r)
                    [] q = 1 -> -SinPoly(r)
                    [] q = 2 -> -CosPoly(r)
                    [] q = 3 -> SinPoly(r))

\* The integrand: fpy, fnp and the three definitions of f.
f_SinSin(x) == Mul(sin(x), sin(x))
f(x) == Mul(sin(x), cos(x))

\* The constants of the test case.
pi == FromFix(PiFix)
Half == Div(FromInt(1), FromInt(2))
HalfPi == Mul(Half, pi)

\* ------------------------------------------------------------ the program
\* The implementations, in the order the notebook defines and calls them.
Impls == <<"integrate_python", "integrate_numpy", "integrate_cython_types",
           "integrate_cython_libc", "integrate_cython_cfun", "integrate">>
LoopImpls == {"integrate_python", "integrate_cython_types",
              "integrate_cython_libc", "integrate_cython_cfun", "integrate"}

VARIABLES
  a, b, N,    \* the caller's values for the test case
  cur,        \* index in Impls of the implementation the driver is at
  trial,      \* calls of Impls[cur] already finished
  pc,         \* position in the running call ("idle": no call is running)
  s, dx, i,   \* the locals of the running call (left as they are at its end)
  nxt,        \* the next item of range(N)
  x,          \* integrate_numpy: the array linspace returned
  trace,      \* the running call's operations so far, in order
  samples,    \* the running call's arguments to the integrand, in order
  ret         \* per implementation, the outcome of its last finished call

vars == <<a, b, N, cur, trial, pc, s, dx, i, nxt, x, trace, samples, ret>>

\* The outcome of a call: a returned value or a raised exception, with the
\* step it used, the points whose integrand values it summed (terms) and the
\* points it evaluated the integrand at (evals).
NoOutcome ==
  [kind |-> "none", val |-> NaN, exc |-> "", dx |-> NaN,
   terms |-> <<>>, evals |-> <<>>, trace |-> <<>>]
Returned(v, d, ts, es, tr) ==
  [kind |-> "value", val |-> v, exc |-> "", dx |-> d,
   terms |-> ts, evals |-> es, trace |-> tr]
Raised(e, es, tr) ==
  [kind |-> "raised", val |-> NaN, exc |-> e, dx |-> NaN,
   terms |-> <<>>, evals |-> es, trace |-> tr]

\* The bounds the driver integrates between.
Bounds == {PZero, FromInt(1), HalfPi, FromInt(-1)}

self == Impls[cur]

Init ==
  /\ a \in Bounds /\ b \in Bounds
  /\ N \in (-MaxNeg)..MaxN
  /\ cur = 1 /\ trial = 0 /\ pc = "idle"
  /\ s = PZero /\ dx = PZero /\ i = 0 /\ nxt = 0
  /\ x = <<>> /\ trace = <<>> /\ samples = <<>>
  /\ ret = [im \in LoopImpls \cup {"integrate_numpy"} |-> NoOutcome]

\* The driver's bookkeeping when the running call ends with outcome o.  The
\* calls are independent of one another: the driver goes on to the next call
\* after a call that raised, as running the notebook's next cell does.
Finish(o) ==
  /\ ret' = [ret EXCEPT ![self] = o]
  /\ pc' = "idle"
  /\ IF trial + 1 = Trials
     THEN cur' = cur + 1 /\ trial' = 0
     ELSE cur' = cur /\ trial' = trial + 1

\* Whether a division by zero is checked for and raised: Python's division
\* and Cython's default; the standalone integrate is compiled with
\* cdivision(True) and divides as C does.
ZeroCheck_Everywhere(im) == TRUE
ZeroCheck(im) == im # "integrate"

\* First and last-plus-one item of range(N).
RangeStart_One(n) == 1
RangeStart(n) == 0
RangeStop_Inclusive(n) == n + 1
RangeStop(n) == n

\* The range of the C int of "int N" and "cdef int i", scaled down: INT_MAX is
\* the largest sample count the driver passes, so that the call with
\* N = INT_MAX is one of the model's.
IntMax == MaxN
IntMin == -MaxN - 1

\* The loop counter after "+= 1".
Increment_Down(k) == k - 1
Increment(k) == k + 1

\* The values a counter of implementation im may hold after being set to v:
\* v itself for Python's unbounded int and for a C int v in range; signed
\* overflow of a C int is undefined and may leave any int.
CounterValues(im, v) ==
  IF im = "integrate_python" \/ v \in IntMin..IntMax THEN {v}
  ELSE IntMin..IntMax

\* The step dx = (b-a)/N.
StepWidth_Sum(lo, hi, n) == Div(Add(hi, lo), FromInt(n))
StepWidth(lo, hi, n) == Div(Sub(hi, lo), FromInt(n))

\* The i-th sample point a + i*dx.
Point_Right(lo, k, d) == Add(lo, Mul(FromInt(k + 1), d))
Point(lo, k, d) == Add(lo, Mul(FromInt(k), d))

\* The value s gets before the loop: s = 0, whatever s held.
InitialS_Stale(old) == old
InitialS(old) == PZero

\* The returned expression s*dx.
ReturnValue_Unscaled(sum, d) == sum
ReturnValue(sum, d) == Mul(sum, d)

RECURSIVE Loop(_, _, _, _, _)
\* The loop from item k of the range on, acc being s so far.
Loop(lo, d, k, stop, acc) ==
  IF k >= stop THEN acc ELSE Loop(lo, d, k + 1, stop, Add(acc, f(Point(lo, k, d))))

\* integrate(lo, hi, n) as a function of its arguments, for a call that
\* divides as C does (or has n # 0).
integrate(lo, hi, n) ==
  LET d == StepWidth(lo, hi, n)
  IN ReturnValue(Loop(lo, d, RangeStart(n), RangeStop(n), InitialS(PZero)), d)

\* The driver calls Impls[cur] with (a, b, N).
Call ==
  /\ pc = "idle" /\ cur <= Len(Impls)
  /\ pc' = IF self = "integrate_numpy" THEN "linspace" ELSE "init"
  /\ trace' = <<>> /\ samples' = <<>>
  /\ UNCHANGED <<a, b, N, cur, trial, s, dx, i, nxt, x, ret>>

\* s = 0
InitS ==
  /\ pc = "init"
  /\ s' = InitialS(s)
  /\ trace' = Append(trace, "s=0")
  /\ pc' = "dx"
  /\ UNCHANGED <<a, b, N, cur, trial, dx, i, nxt, x, samples, ret>>

\* dx = (b-a)/N, with N = 0 raising ZeroDivisionError where division is checked.
ComputeDx ==
  /\ pc = "dx"
  /\ IF N = 0 /\ ZeroCheck(self)
     THEN /\ Finish(Raised("ZeroDivisionError", samples, trace))
          /\ UNCHANGED <<dx, nxt, trace>>
     ELSE /\ dx' = StepWidth(a, b, N)
          /\ nxt' = RangeStart(N)
          /\ trace' = Append(trace, "dx=")
          /\ pc' = "loop"
          /\ UNCHANGED <<cur, trial, ret>>
  /\ UNCHANGED <<a, b, N, s, i, x, samples>>

\* One iteration of "for i in range(N): s += f(a+i*dx)".
LoopBody ==
  /\ pc = "loop" /\ nxt < RangeStop(N)
  /\ i' = nxt
  /\ nxt' \in CounterValues(self, Increment(nxt))
  /\ s' = Add(s, f(Point(a, nxt, dx)))
  /\ samples' = Append(samples, Point(a, nxt, dx))
  /\ trace' = Append(trace, "s+=")
  /\ UNCHANGED <<a, b, N, cur, trial, pc, dx, x, ret>>

\* range(N) is exhausted.
LoopExit ==
  /\ pc = "loop" /\ nxt >= RangeStop(N)
  /\ pc' = "return"
  /\ UNCHANGED <<a, b, N, cur, trial, s, dx, i, nxt, x, trace, samples, ret>>

\* return s*dx
Return ==
  /\ pc = "return"
  /\ trace' = Append(trace, "s*dx")
  /\ Finish(Returned(ReturnValue(s, dx), dx, samples, samples, trace'))
  /\ UNCHANGED <<a, b, N, s, dx, i, nxt, x, samples>>

\* linspace with endpoint=False: the step is (stop - start)/num.
linspace_NoEndpoint(start, stop, num) ==
  IF num <= 0 THEN <<>>
  ELSE [j \in 1..num |->
          Add(Mul(FromInt(j - 1), Div(Sub(stop, start), FromInt(num))), start)]

\* np.linspace(start, stop, num) with endpoint=True: num points start + j*step;
\* the last is set to stop.
linspace(start, stop, num) ==
  LET div == num - 1
      delta == Sub(stop, start)
      step == IF div > 0 THEN Div(delta, FromInt(div)) ELSE NaN
      y(j) == IF div > 0
              THEN (IF IsZero(step)
                    THEN Mul(Div(FromInt(j), FromInt(div)), delta)
                    ELSE Mul(FromInt(j), step))
              ELSE Mul(FromInt(j), delta)
  IN IF num <= 0 THEN <<>>
     ELSE [j \in 1..num |->
             IF num > 1 /\ j = num THEN stop ELSE Add(y(j - 1), start)]

RECURSIVE AddFrom(_, _, _)
\* res += v[j] for j = from, from+1, ..., in order.
AddFrom(res, v, from) ==
  IF from > Len(v) THEN res ELSE AddFrom(Add(res, v[from]), v, from + 1)

\* np.sum of a contiguous array of doubles of at most 128 items: numpy's
\* pairwise summation, which adds fewer than 8 items in order and otherwise
\* keeps 8 running sums, combines them as a tree and adds the leftover items.
npsum(v) ==
  LET n == Len(v) IN
  IF n < 8 THEN AddFrom(PZero, v, 1)
  ELSE LET blocks == n \div 8
           r(j) == LET RECURSIVE acc(_, _)
                       acc(res, blk) ==
                         IF blk >= blocks THEN res
                         ELSE acc(Add(res, v[8 * blk + j]), blk + 1)
                   IN acc(v[j], 1)
           tree == Add(Add(Add(r(1), r(2)), Add(r(3), r(4))),
                       Add(Add(r(5), r(6)), Add(r(7), r(8))))
       IN AddFrom(tree, v, 8 * blocks + 1)

\* x[:-1]
DropLast(v) == IF Len(v) = 0 THEN <<>> ELSE SubSeq(v, 1, Len(v) - 1)

\* fnp(x): the integrand at every item of x.
fnp(v) == [j \in 1..Len(v) |-> f(v[j])]

\* x = np.linspace(a, b, N + 1), which raises ValueError for a negative count.
Linspace ==
  /\ pc = "linspace"
  /\ IF N + 1 < 0
     THEN /\ Finish(Raised("ValueError", samples, trace))
          /\ UNCHANGED <<x, trace>>
     ELSE /\ x' = linspace(a, b, N + 1)
          /\ trace' = Append(trace, "linspace")
          /\ pc' = "npdx"
          /\ UNCHANGED <<cur, trial, ret>>
  /\ UNCHANGED <<a, b, N, s, dx, i, nxt, samples>>

\* dx = (b - a)/N in integrate_numpy: Python's division.
NumpyDx ==
  /\ pc = "npdx"
  /\ IF N = 0 /\ ZeroCheck(self)
     THEN /\ Finish(Raised("ZeroDivisionError", samples, trace))
          /\ UNCHANGED <<dx, trace>>
     ELSE /\ dx' = StepWidth(a, b, N)
          /\ trace' = Append(trace, "dx=")
          /\ pc' = "npreturn"
          /\ UNCHANGED <<cur, trial, ret>>
  /\ UNCHANGED <<a, b, N, s, i, nxt, x, samples>>

\* return dx*np.sum(fnp(x)[:-1])
NumpyReturn ==
  /\ pc = "npreturn"
  /\ samples' = x
  /\ trace' = trace \o <<"fnp", "[:-1]", "sum", "dx*sum">>
  /\ Finish(Returned(Mul(dx, npsum(DropLast(fnp(x)))), dx, DropLast(x), x, trace'))
  /\ UNCHANGED <<a, b, N, s, dx, i, nxt, x>>

Next ==
  \/ Call
  \/ InitS
  \/ ComputeDx
  \/ LoopBody
  \/ LoopExit
  \/ Return
  \/ Linspace
  \/ NumpyDx
  \/ NumpyReturn

Spec == Init /\ [][Next]_vars

\* ------------------------------------------------------------- properties
Done(im) == ret[im].kind # "none"
AllImpls == LoopImpls \cup {"integrate_numpy"}

RECURSIVE LeftSum(_, _, _)
\* f(lo) + f(lo + d) + ... + f(lo + (k-1)*d), added in this order from 0.
LeftSum(lo, d, k) ==
  IF k = 0 THEN PZero
  ELSE Add(LeftSum(lo, d, k - 1), f(Add(lo, Mul(FromInt(k - 1), d))))

\* The left endpoints lo, lo + d, ..., lo + (k-1)*d.
LeftPoints(lo, d, k) == [j \in 1..k |-> Add(lo, Mul(FromInt(j - 1), d))]

\* k copies of the operation op.
Times(k, op) == [j \in 1..k |-> op]

\* C1: for N >= 1 a finished call of a loop implementation has returned s*dx,
\* with dx = (b-a)/N and s the sum of f(a + i*dx) over exactly i = 0..N-1, in
\* this order: the integrand was evaluated at these N left endpoints and at
\* no other point.
C1_LeftRiemannSum ==
  \A im \in LoopImpls :
    (N >= 1 /\ Done(im)) =>
      LET d == Div(Sub(b, a), FromInt(N)) IN
      /\ ret[im].kind = "value"
      /\ ret[im].dx = d
      /\ ret[im].val = Mul(LeftSum(a, d, N), d)
      /\ Len(ret[im].terms) = N
      /\ ret[im].terms = LeftPoints(a, d, N)
      /\ ret[im].evals = ret[im].terms
C1_Witness ==
  /\ N >= 3 /\ a # b
  /\ Done("integrate") /\ Done("integrate_python")
  /\ ret["integrate"].val.k = "fin"

\* C2 as stated: a finished call of integrate or integrate_python with N = 0
\* was rejected with an error: it raised, dx was not computed, f was not called.
C2_ZeroNRejected ==
  \A im \in {"integrate", "integrate_python"} :
    (N = 0 /\ Done(im)) =>
      /\ ret[im].kind = "raised"
      /\ ret[im].trace = <<"s=0">>
      /\ ret[im].evals = <<>>
\* C2 as amended: with N = 0 the implementations whose division is checked
\* (Python's, and Cython's by default) raise ZeroDivisionError at the division,
\* so that dx gets no value, f is not called and nothing is returned; the
\* standalone integrate, compiled with cdivision(True), is not rejected: it
\* divides, does not call f and returns nan.
C2_ZeroNByDivision ==
  \A im \in AllImpls :
    (N = 0 /\ Done(im)) =>
      IF im = "integrate"
      THEN /\ ret[im].kind = "value"
           /\ ret[im].val.k = "nan"
           /\ ret[im].dx.k \in {"inf", "nan"}
           /\ ret[im].evals = <<>>
           /\ ret[im].trace = <<"s=0", "dx=", "s*dx">>
      ELSE /\ ret[im].kind = "raised"
           /\ ret[im].exc = "ZeroDivisionError"
           /\ ret[im].evals = <<>>
           /\ ret[im].trace = IF im = "integrate_numpy" THEN <<"linspace">> ELSE <<"s=0">>
C2_Witness ==
  /\ N = 0
  /\ ret["integrate"].kind = "value"
  /\ ret["integrate_python"].kind = "raised"

\* C3 as stated: a finished call of integrate or integrate_cython_types with
\* N <= 0 has returned, without raising, a value that is inf or nan.
C3_NonPositiveNGivesInfNan ==
  \A im \in {"integrate", "integrate_cython_types"} :
    (N <= 0 /\ Done(im)) =>
      /\ ret[im].kind = "value"
      /\ ret[im].val.k \in {"inf", "nan"}
\* C3 as amended: for N = 0 integrate returns nan without raising, while
\* integrate_cython_types raises ZeroDivisionError; for N < 0 both return,
\* without raising and without calling f, the zero 0*dx of a finite dx.
C3_NonPositiveN ==
  \A im \in {"integrate", "integrate_cython_types"} :
    (N <= 0 /\ Done(im)) =>
      /\ N < 0 => /\ ret[im].kind = "value"
                  /\ IsZero(ret[im].val)
                  /\ IsFinite(ret[im].dx)
                  /\ ret[im].evals = <<>>
      /\ (N = 0 /\ im = "integrate") =>
            ret[im].kind = "value" /\ ret[im].val.k = "nan"
      /\ (N = 0 /\ im = "integrate_cython_types") =>
            ret[im].kind = "raised" /\ ret[im].exc = "ZeroDivisionError"
C3_Witness ==
  /\ N < 0
  /\ ret["integrate"].kind = "value"
  /\ ret["integrate_cython_types"].kind = "value"
  /\ a # b

AllDone == \A im \in AllImpls : Done(im)

RECURSIVE AbsSum(_, _)
\* |f(v[1])| + ... + |f(v[k])|
AbsSum(v, k) == IF k = 0 THEN PZero ELSE Add(AbsSum(v, k - 1), Abs(f(v[k])))

\* x <= y
LessEq(p, q) == Less(p, q) \/ Eq(p, q)

\* 2^(-n)
TwoToMinus(n) == Fl("fin", 1, 2^(Prec - 1), -n - (Prec - 1))

\* C4 as stated: for N >= 1 all six implementations return the same value,
\* having summed the integrand at the same N points and scaled by the same dx.
C4_AllReturnTheSame ==
  (N >= 1 /\ AllDone) =>
    \A im \in AllImpls :
      /\ ret[im].kind = "value"
      /\ ret[im].terms = ret["integrate_python"].terms
      /\ ret[im].dx = ret["integrate_python"].dx
      /\ ret[im].val = ret["integrate_python"].val
\* C4 as amended: for N >= 1 the five loop implementations return the same
\* value; integrate_numpy sums the integrand at the same N points (it
\* evaluates it at the N+1 points of linspace, b included, and drops the last
\* value) and scales by the same dx, but np.sum adds the terms in another
\* order (pairwise), so its value is the loops' for N < 8 and otherwise
\* differs from it by no more than the rounding of the sums,
\* 4*N*2^(-Prec) * sum |f(x_i)| * |dx|.
C4_EquivalentUpToRounding ==
  (N >= 1 /\ AllDone) =>
    LET py == ret["integrate_python"]
        np == ret["integrate_numpy"]
    IN /\ \A im \in LoopImpls : ret[im] = py
       /\ py.kind = "value" /\ np.kind = "value"
       /\ np.terms = py.terms
       /\ np.dx = py.dx
       /\ Len(np.evals) = N + 1
       /\ np.evals[N + 1] = b
       /\ N < 8 => np.val = py.val
       /\ LessEq(Abs(Sub(np.val, py.val)),
                 Mul(Mul(FromInt(4 * N), TwoToMinus(Prec)),
                     Mul(AbsSum(py.terms, N), Abs(py.dx))))
C4_Witness ==
  /\ N >= 8 /\ AllDone
  /\ a = PZero /\ b = HalfPi
  /\ ret["integrate_numpy"].val # ret["integrate"].val

\* C6: a call changes nothing of its caller's (a, b and N stay as they are,
\* and an outcome is recorded only for the implementation called, only when
\* its call ends), and no call depends on an earlier one: whenever a call of
\* an implementation that was called before ends, its outcome (value or
\* exception, step, points evaluated, operations performed) is the one the
\* earlier call had.
C6_PureAndRepeatable ==
  [][/\ a' = a /\ b' = b /\ N' = N
     /\ \A im \in AllImpls :
          /\ ret'[im] # ret[im] => (im = self /\ pc # "idle" /\ pc' = "idle")
          /\ Done(im) => ret'[im] = ret[im]]_vars
C6_Witness ==
  /\ cur > Len(Impls) /\ N >= 2 /\ a # b
  /\ ret["integrate"].kind = "value"
  /\ ~IsZero(s)

\* C7: for a = b and N >= 1 a finished call has returned zero: dx is zero,
\* each of the N samples was taken at the point a, and s*dx is zero.
C7_ZeroWidth ==
  \A im \in LoopImpls :
    (a = b /\ N >= 1 /\ Done(im)) =>
      /\ ret[im].kind = "value"
      /\ IsZero(ret[im].dx)
      /\ Len(ret[im].evals) = N
      /\ \A j \in 1..N : Eq(ret[im].evals[j], a)
      /\ Eq(ret[im].val, PZero)
C7_Witness ==
  /\ a = b /\ a = FromInt(1) /\ N >= 2
  /\ Done("integrate")
  /\ ret["integrate"].val = PZero

\* C8: with N = 1 a finished call has evaluated the integrand exactly once, at
\* a, and returned (b - a) * f(a); for a = 0, b = pi/2 that is zero.
C8_SingleSample ==
  \A im \in LoopImpls :
    (N = 1 /\ Done(im)) =>
      /\ ret[im].kind = "value"
      /\ ret[im].evals = <<a>>
      /\ Eq(ret[im].val, Mul(Sub(b, a), f(a)))
      /\ (a = PZero /\ b = HalfPi) => Eq(ret[im].val, PZero)
C8_Witness ==
  /\ N = 1 /\ a = PZero /\ b = HalfPi
  /\ Done("integrate")
  /\ ret["integrate"].val = PZero

\* The operations of a call of a loop implementation that has updated s k times.
LoopTrace(k) == <<"s=0", "dx=">> \o Times(k, "s+=")

\* C10: in a call of a loop implementation s is set to 0 first and dx computed
\* next, once, keeping its value (b-a)/N to the end; then s is updated once
\* per item of range(N), in increasing order of i, so that after k updates s is
\* the sum of f(a + i*dx) over i < k; and s is multiplied by dx once, last,
\* after N updates when N >= 1.
C10_AccumulatorOrder ==
  /\ pc = "dx" => trace = <<"s=0">> /\ s = PZero
  /\ pc \in {"loop", "return"} =>
       /\ trace = LoopTrace(nxt)
       /\ dx = Div(Sub(b, a), FromInt(N))
       /\ s = LeftSum(a, dx, nxt)
       /\ samples = LeftPoints(a, dx, nxt)
       /\ nxt >= 1 => i = nxt - 1
       /\ N >= 1 => nxt <= N
       /\ (pc = "return" /\ N >= 1) => nxt = N
  /\ \A im \in LoopImpls :
       (N >= 1 /\ Done(im)) =>
          /\ ret[im].trace = LoopTrace(N) \o <<"s*dx">>
          /\ ret[im].dx = Div(Sub(b, a), FromInt(N))
C10_Witness ==
  /\ pc = "return" /\ self = "integrate" /\ N >= 3 /\ nxt = N
  /\ trace = <<"s=0", "dx=">> \o Times(N, "s+=")
  /\ s.k = "fin"

\* The exact integral of sin(x)*cos(x) over [0, 1], sin(1)^2 / 2.
ExactZeroToOne == Mul(Half, Mul(sin(FromInt(1)), sin(FromInt(1))))

\* The error of integrate(lo, hi, 2N) against that of the finished call
\* integrate(lo, hi, N), the exact integral being exact: e(N) / e(2N) lies
\* between the natural numbers low and high.
ErrorRatioWithin(exact, low, high) ==
  LET e1 == Abs(Sub(ret["integrate"].val, exact))
      e2 == Abs(Sub(integrate(a, b, 2 * N), exact))
  IN /\ LessEq(Mul(FromInt(low), e2), e1)
     /\ LessEq(e1, Mul(FromInt(high), e2))

\* The calls C9 is about: integrate has returned for N, and 2N is a sample count.
Doubling(lo, hi) ==
  /\ a = lo /\ b = hi
  /\ N >= 1 /\ 2 * N <= MaxN
  /\ ret["integrate"].kind = "value"

\* C9 as stated: for a = 0, b = pi/2 doubling N roughly halves the error
\* |integrate(a, b, N) - 0.5|: the ratio e(N) / e(2N) is about 2 (here:
\* between 4/3 and 3).
C9_DoublingHalvesError ==
  Doubling(PZero, HalfPi) =>
    LET e1 == Abs(Sub(ret["integrate"].val, Half))
        e2 == Abs(Sub(integrate(a, b, 2 * N), Half))
    IN /\ LessEq(Mul(FromInt(4), e2), Mul(FromInt(3), e1))
       /\ LessEq(e1, Mul(FromInt(3), e2))
\* C9 as amended: for a = 0, b = pi/2 the integrand is zero at both ends, the
\* left sum is the trapezoid sum and doubling N roughly quarters the error
\* (e(N) / e(2N) between 3 and 6); doubling N roughly halves it (between 3/2
\* and 3) where the integrand differs at the two ends, as for a = 0, b = 1.
C9_DoublingQuartersError ==
  /\ Doubling(PZero, HalfPi) => ErrorRatioWithin(Half, 3, 6)
  /\ Doubling(PZero, FromInt(1)) =>
       LET e1 == Abs(Sub(ret["integrate"].val, ExactZeroToOne))
           e2 == Abs(Sub(integrate(a, b, 2 * N), ExactZeroToOne))
       IN /\ LessEq(Mul(FromInt(3), e2), Mul(FromInt(2), e1))
          /\ LessEq(e1, Mul(FromInt(3), e2))
C9_Witness ==
  /\ Doubling(PZero, HalfPi) /\ N = 4
  /\ Less(ret["integrate"].val, Half)
  /\ Less(ret["integrate"].val, integrate(a, b, 2 * N))

\* The body of the loop has executed in the running call.
BodyRan == pc \in {"loop", "return"} /\ samples # <<>>

\* max(N, 0)
Iterations == IF N > 0 THEN N ELSE 0

\* The steps the running call of a loop implementation has left, at most.
StepsLeft ==
  CASE pc = "init" -> Iterations + 4
    [] pc = "dx" -> Iterations + 3
    [] pc = "loop" -> Iterations - nxt + 2
    [] pc = "return" -> 1
    [] OTHER -> 0

\* C11: every call of a loop implementation ends, for every N of the int
\* range: each of its steps leaves fewer steps to take, at most max(N, 0) + 4
\* from the start; the loop counter stays in the int range and in
\* 0..max(N, 0); the body executes with 0 <= i <= N-1 only, max(N, 0) times
\* in all when the loop is left, and for N < 0 not at all, the call
\* returning with s still 0.
C11_LoopTerminates ==
  /\ [](/\ N \in IntMin..IntMax
        /\ StepsLeft >= 0
        /\ pc \in {"loop", "return"} =>
             /\ nxt \in IntMin..IntMax
             /\ 0 <= nxt /\ nxt <= Iterations
             /\ Len(samples) = nxt
        /\ BodyRan => (0 <= i /\ i <= N - 1 /\ i \in IntMin..IntMax)
        /\ pc = "return" => Len(samples) = Iterations
        /\ (pc = "return" /\ N < 0) => (samples = <<>> /\ s = PZero)
        /\ \A im \in LoopImpls :
             (Done(im) /\ ret[im].kind = "value") =>
                /\ Len(ret[im].evals) = Iterations
                /\ N < 0 => IsZero(ret[im].val))
  /\ [][(pc \in {"init", "dx", "loop", "return"}) =>
          (StepsLeft' < StepsLeft /\ (pc = "return" => pc' = "idle"))]_vars
C11_Witness ==
  /\ N = IntMax /\ self = "integrate" /\ pc = "return"
  /\ nxt = IntMax /\ i = IntMax - 1
  /\ Len(samples) = N

====
